---- MODULE Spec2Model ----
(***************************************************************************)
(* Model of the extinction-curve fitting scripts of spitzer_mir_ext:       *)
(*   calc_ext.py, calc_ext_wG20.py and Figs/old/calc_ext_poly.py.          *)
(*                                                                         *)
(* Floating point numbers are modelled as exact rationals <<n, d>> in      *)
(* lowest terms with d >= 0.  The denominator 0 plays the role of the      *)
(* IEEE special values numpy produces instead of raising:                  *)
(*   <<1, 0>> = +inf,  <<-1, 0>> = -inf,  <<0, 0>> = nan.                  *)
(***************************************************************************)
EXTENDS Integers, Sequences, FiniteSets, TLC

(***************************************************************************)
(* Arithmetic of numpy floats (exact rationals plus inf / nan).            *)
(***************************************************************************)
Abs(i) ==
    IF i < 0 THEN -i ELSE i

Sign(i) ==
    IF i < 0 THEN -1 ELSE IF i > 0 THEN 1 ELSE 0

RECURSIVE GCD(_, _)
GCD(a, b) ==
    IF b = 0 THEN a ELSE GCD(b, a % b)

Rat(n, d) ==
    IF d = 0 THEN <<Sign(n), 0>>
    ELSE LET g == GCD(Abs(n), Abs(d))
         IN  <<(Sign(d) * n) \div g, Abs(d) \div g>>

NegInf ==
    <<-1, 0>>

PosInf ==
    <<1, 0>>

NaN ==
    <<0, 0>>

None ==
    <<>>

IsNaN(a) ==
    a = NaN

IsFinite(a) ==
    a[2] # 0

RNeg(a) ==
    <<-a[1], a[2]>>

RAdd(a, b) ==
    IF IsNaN(a) \/ IsNaN(b) THEN NaN
    ELSE IF a[2] = 0 /\ b[2] = 0 THEN (IF a = b THEN a ELSE NaN)
    ELSE IF a[2] = 0 THEN a
    ELSE IF b[2] = 0 THEN b
    ELSE Rat(a[1] * b[2] + b[1] * a[2], a[2] * b[2])

RSub(a, b) ==
    RAdd(a, RNeg(b))

RMul(a, b) ==
    IF IsNaN(a) \/ IsNaN(b) THEN NaN
    ELSE Rat(a[1] * b[1], a[2] * b[2])

\* numpy division: x / 0 is +-inf, 0 / 0 and inf / inf are nan
RDiv(a, b) ==
    IF IsNaN(a) \/ IsNaN(b) THEN NaN
    ELSE IF a[2] = 0 /\ b[2] = 0 THEN NaN
    ELSE IF b[2] = 0 THEN <<0, 1>>
    ELSE IF b[1] = 0 THEN <<Sign(a[1]), 0>>
    ELSE Rat(a[1] * b[2], a[2] * b[1])

\* a < b ; every comparison with nan is False
RLt(a, b) ==
    IF IsNaN(a) \/ IsNaN(b) THEN FALSE
    ELSE IF a[2] = 0 /\ b[2] = 0 THEN a[1] < b[1]
    ELSE IF a[2] = 0 THEN a[1] < 0
    ELSE IF b[2] = 0 THEN b[1] > 0
    ELSE a[1] * b[2] < b[1] * a[2]

RGt(a, b) ==
    RLt(b, a)

RLe(a, b) ==
    (~IsNaN(a)) /\ (~IsNaN(b)) /\ ~RLt(b, a)

RSq(a) ==
    RMul(a, a)

\* np.power(a, k) for an integer exponent k
RECURSIVE RPow(_, _)
RPow(a, k) ==
    IF k = 0 THEN <<1, 1>>
    ELSE IF k < 0 THEN RDiv(<<1, 1>>, RPow(a, -k))
    ELSE RMul(a, RPow(a, k - 1))

Int2R(i) ==
    <<i, 1>>

Zero ==
    <<0, 1>>

One ==
    <<1, 1>>

\* 1.0 / x, element by element
Inverse(s) ==
    [i \in 1..Len(s) |-> RDiv(One, s[i])]

(***************************************************************************)
(* Curve shapes: calc_ext_wG20.py class G20, calc_ext_poly.py Drude1D.     *)
(***************************************************************************)
VARIABLES shape_in, shape_out, drude, g20

_g20_bkg_term(in_lambda, amplitude, cen_wave, b, n) ==
    LET l_norm == RDiv(in_lambda, cen_wave)
    IN  RDiv(amplitude, RAdd(RAdd(RPow(l_norm, n), RPow(l_norm, -1 * n)), b))

\* a Drude term that forgets the (width / cen_wave)^2 factor of the numerator
_g20_drude_term_unscaled(waves, amplitude, cen_wave, width) ==
    RDiv(amplitude,
         RAdd(RSq(RSub(RDiv(waves, cen_wave), RDiv(cen_wave, waves))),
              RSq(RDiv(width, cen_wave))))

_g20_drude_term(waves, amplitude, cen_wave, width) ==
    RDiv(RMul(amplitude, RSq(RDiv(width, cen_wave))),
         RAdd(RSq(RSub(RDiv(waves, cen_wave), RDiv(cen_wave, waves))),
              RSq(RDiv(width, cen_wave))))

Drude1D_evaluate(x, amplitude, x_0, fwhm) ==
    RDiv(RMul(amplitude, RSq(RDiv(fwhm, x_0))),
         RAdd(RSq(RSub(RDiv(x, x_0), RDiv(x_0, x))),
              RSq(RDiv(fwhm, x_0))))

\* G20.x_range = [1.0 / 1e3, 1.0 / 1e-3]
x_range ==
    <<Rat(1, 1000), Rat(1000, 1)>>

\* dust_extinction.helpers._get_x_in_wavenumbers: a wavelength quantity is
\* converted to wavenumbers, a bare number is taken to be in 1/micron
_get_x_in_wavenumbers(in_x, unit) ==
    IF unit = "micron" THEN Inverse(in_x) ELSE in_x

\* a range test that only looks at the lower end
_test_valid_x_range_lower(x, xr) ==
    \E i \in 1..Len(x) : RLt(x[i], xr[1])

\* dust_extinction.helpers._test_valid_x_range: TRUE when it raises
_test_valid_x_range(x, xr) ==
    \E i \in 1..Len(x) : RLt(x[i], xr[1]) \/ RGt(x[i], xr[2])

\* a sum that leaves out the FIR term
G20_terms_without_FIR(lam, P) ==
    RAdd(RAdd(RAdd(RAdd(
        _g20_bkg_term(lam, P.BKG_amp, P.BKG_lambda, P.BKG_b, P.BKG_n),
        _g20_drude_term(lam, P.FUV_amp, P.FUV_lambda, P.FUV_width)),
        _g20_drude_term(lam, P.NUV_amp, P.NUV_lambda, P.NUV_width)),
        _g20_drude_term(lam, P.SIL1_amp, P.SIL1_lambda, P.SIL1_width)),
        _g20_drude_term(lam, P.SIL2_amp, P.SIL2_lambda, P.SIL2_width))

G20_terms(lam, P) ==
    RAdd(RAdd(RAdd(RAdd(RAdd(
        _g20_bkg_term(lam, P.BKG_amp, P.BKG_lambda, P.BKG_b, P.BKG_n),
        _g20_drude_term(lam, P.FUV_amp, P.FUV_lambda, P.FUV_width)),
        _g20_drude_term(lam, P.NUV_amp, P.NUV_lambda, P.NUV_width)),
        _g20_drude_term(lam, P.SIL1_amp, P.SIL1_lambda, P.SIL1_width)),
        _g20_drude_term(lam, P.SIL2_amp, P.SIL2_lambda, P.SIL2_width)),
        _g20_drude_term(lam, P.FIR_amp, P.FIR_lambda, P.FIR_width))

\* G20.evaluate: the result is [exc, axav]; axav is None when it raised
G20_evaluate(in_x, unit, P) ==
    LET x == _get_x_in_wavenumbers(in_x, unit)
    IN  IF _test_valid_x_range(x, x_range)
        THEN [exc |-> "ValueError", axav |-> None]
        ELSE [exc |-> "none",
              axav |-> [i \in 1..Len(x) |-> G20_terms(RDiv(One, x[i]), P)]]

\* names bound at module level in calc_ext_poly.py (imports and definitions)
poly_globals ==
    {"argparse", "warnings", "plt", "matplotlib", "np", "emcee", "corner",
     "u", "LevMarLSQFitter", "Fittable1DModel", "Parameter", "Polynomial1D",
     "Gaussian1D", "AxAvToExv", "StarData", "ExtData",
     "Drude1D", "lnprob", "get_best_fit_params", "p92_emcee",
     "plot_emcee_results"}

\* `raise Name(...)`: looking up an unbound global raises NameError instead
RaiseIn(globals, name) ==
    IF name \in globals THEN name ELSE "NameError"

\* Drude1D.x_0 validator: the exception it ends with ("none" when it returns)
x_0_validator(val) ==
    IF val = Zero THEN RaiseIn(poly_globals, "InputParameterError") ELSE "none"

(***************************************************************************)
(* The fitted model object.  The scripts fit P92_Elv (P92 | AxAvToExv of   *)
(* dust_extinction); the model keeps the parameters of two of its terms.   *)
(* A model object is [value, fixed, bounds, tied] indexed by name.         *)
(***************************************************************************)
param_names ==
    <<"SIL1_amp_0", "FIR_amp_0", "FIR_lambda_0", "FIR_b_0">>

PNameSet ==
    {param_names[i] : i \in 1..Len(param_names)}

\* centre, b and n of the terms whose parameters are not kept
SIL1_lambda ==
    <<10, 1>>

SIL1_b ==
    <<-3, 2>>

P92_n ==
    1

\* model(x): the P92 terms have the shape a / ((l/c)^n + (c/l)^n + b)
ModelCall(model, xi) ==
    LET lam == RDiv(One, xi)
    IN  RAdd(_g20_bkg_term(lam, model.value["SIL1_amp_0"], SIL1_lambda,
                           SIL1_b, P92_n),
             _g20_bkg_term(lam, model.value["FIR_amp_0"],
                           model.value["FIR_lambda_0"],
                           model.value["FIR_b_0"], P92_n))

RECURSIVE SumSeq(_)
SumSeq(s) ==
    IF Len(s) = 0 THEN Zero ELSE RAdd(s[1], SumSeq(Tail(s)))

\* -0.5 * np.sum(((model(x) - y) / uncs) ** 2)
LogLike(model, x, y, uncs) ==
    RMul(Rat(-1, 2),
         SumSeq([i \in 1..Len(x) |->
                   RSq(RDiv(RSub(ModelCall(model, x[i]), y[i]), uncs[i]))]))

\* exec("model.{}.value = {}".format(cname, v))
SetValue(model, cname, v) ==
    [model EXCEPT !.value[cname] = v]

(***************************************************************************)
(* lnprob.  It returns [ret, model]: the value returned and the model      *)
(* object as the call leaves it.                                           *)
(***************************************************************************)
\* calc_ext.py: the bounds are tested on param_dict, the values the model
\* held when the call started
RECURSIVE lnprob_calc_ext_loop(_, _, _, _, _, _, _, _)
lnprob_calc_ext_loop(k, param_dict, params, x, y, uncs, model, pnames) ==
    IF k > Len(pnames) THEN [ret |-> LogLike(model, x, y, uncs), model |-> model]
    ELSE LET cname == pnames[k]
         IN  IF model.bounds[cname][1] # None
                  /\ RLt(param_dict[cname], model.bounds[cname][1])
             THEN [ret |-> NegInf, model |-> model]
             ELSE IF model.bounds[cname][2] # None
                       /\ RGt(param_dict[cname], model.bounds[cname][2])
             THEN [ret |-> NegInf, model |-> model]
             ELSE lnprob_calc_ext_loop(k + 1, param_dict, params, x, y, uncs,
                                       SetValue(model, cname, params[k]), pnames)

lnprob_calc_ext(params, x, y, uncs, model, pnames) ==
    lnprob_calc_ext_loop(1, model.value, params, x, y, uncs, model, pnames)

\* calc_ext_wG20.py and calc_ext_poly.py: the bounds are tested on params
RECURSIVE lnprob_wG20_loop(_, _, _, _, _, _, _)
lnprob_wG20_loop(k, params, x, y, uncs, model, pnames) ==
    IF k > Len(pnames) THEN [ret |-> LogLike(model, x, y, uncs), model |-> model]
    ELSE LET cname == pnames[k]
         IN  IF model.bounds[cname][1] # None
                  /\ RLt(params[k], model.bounds[cname][1])
             THEN [ret |-> NegInf, model |-> model]
             ELSE IF model.bounds[cname][2] # None
                       /\ RGt(params[k], model.bounds[cname][2])
             THEN [ret |-> NegInf, model |-> model]
             ELSE lnprob_wG20_loop(k + 1, params, x, y, uncs,
                                   SetValue(model, cname, params[k]), pnames)

lnprob_wG20(params, x, y, uncs, model, pnames) ==
    lnprob_wG20_loop(1, params, x, y, uncs, model, pnames)

lnprob(scr, params, x, y, uncs, model, pnames) ==
    IF scr = "calc_ext" THEN lnprob_calc_ext(params, x, y, uncs, model, pnames)
    ELSE lnprob_wG20(params, x, y, uncs, model, pnames)

(***************************************************************************)
(* State.                                                                  *)
(***************************************************************************)
VARIABLES
    script,      \* which script runs: "calc_ext" or "calc_ext_wG20"
    data,        \* (x, y, y_unc) returned by extdata.get_fitdata
    model_copy,  \* the model object lnprob evaluates (args of the sampler)
    lncall,      \* the last direct call of lnprob: its arguments and result
    args,        \* the parsed command line
    pc,          \* the statement of the main script that runs next
    exc,         \* the exception that ended the script, "none" otherwise
    p92_init,    \* the model with its initial guess, flags and bounds
    p92_fit,     \* the model returned by the LevMarLSQFitter
    em,          \* the locals of p92_emcee
    sampler,     \* emcee.EnsembleSampler: chain and lnprobability
    pos,         \* the walker positions returned by run_mcmc
    prob,        \* their log-probabilities
    best_params, \* the result of get_best_fit_params
    per_params,  \* the map object of the percentile triples
    p92_fit_emcee, \* the model returned by p92_emcee
    saved,       \* p92_best_params written with the extinction curve
    hist,        \* the steps taken so far, oldest first
    files,       \* the files written so far, oldest first
    shown,       \* whether plt.show() was called
    curves,      \* the model curves drawn on the final figure, in order
    plot_script, \* which plotting script runs
    file_lines,  \* list(f): the lines of the file list
    line_no,     \* the line the reading loop is at
    extnames,    \* the names read from the file list
    extdatas,    \* the ExtData objects read for them
    avs,         \* their A(V) values
    normvals,    \* their near-UV normalisation values
    plot_pc,     \* the statement of the plotting script that runs next
    plot_exc,    \* the exception that ended the plotting script
    drawn        \* the curves plot_all_ext drew, in order

shape_vars ==
    <<shape_in, shape_out, drude, g20>>

ln_vars ==
    <<script, data, model_copy, lncall>>

pipe_vars ==
    <<args, pc, exc, p92_init, p92_fit, em, sampler, pos, prob, best_params,
      per_params, p92_fit_emcee, saved, hist, files, shown, curves>>

list_vars ==
    <<plot_script, file_lines, line_no, extnames, extdatas, avs, normvals,
      plot_pc, plot_exc, drawn>>

Scripts ==
    {"calc_ext", "calc_ext_wG20"}

\* fitting data: wavenumbers at the centres of the two terms
DataChoices ==
    { [x |-> <<Rat(1, 10), Rat(1, 20)>>,
       y |-> <<Int2R(4), Int2R(5)>>,
       uncs |-> <<One, Int2R(2)>>],
      [x |-> <<Rat(1, 10)>>,
       y |-> <<Int2R(3)>>,
       uncs |-> <<One>>] }

\* bounds of the parameters: amplitudes have min=0.0 as declared; a script
\* may narrow them (p92_init.<name>.bounds = [lo, hi])
BoundsChoices ==
    { [n \in PNameSet |->
         CASE n = "SIL1_amp_0" -> <<Zero, None>>
           [] n = "FIR_amp_0" -> <<Zero, None>>
           [] n = "FIR_lambda_0" -> <<Int2R(20), Int2R(30)>>
           [] OTHER -> <<None, None>>],
      [n \in PNameSet |->
         CASE n = "SIL1_amp_0" -> <<One, Int2R(2)>>
           [] n = "FIR_amp_0" -> <<None, Int2R(6)>>
           [] n = "FIR_lambda_0" -> <<Int2R(20), Int2R(30)>>
           [] OTHER -> <<None, None>>] }

\* p92_init.FIR_lambda_0.fixed = True ; p92_init.FIR_b_0.fixed = True
FixedFlags ==
    [n \in PNameSet |-> n \in {"FIR_lambda_0", "FIR_b_0"}]

\* p92_init.FIR_amp_0.tied = tie_amps_FIR_to_SIL1 (calc_ext.py only)
TiedFlags(scr) ==
    [n \in PNameSet |->
       IF scr = "calc_ext" /\ n = "FIR_amp_0" THEN "tie_amps_FIR_to_SIL1"
       ELSE "False"]

\* (0.012/0.002) * model.SIL1_amp_0
tie_amps_FIR_to_SIL1(model) ==
    RMul(RDiv(Rat(12, 1000), Rat(2, 1000)), model.value["SIL1_amp_0"])

InBound(v, bnd) ==
    /\ (bnd[1] # None => ~RLt(v, bnd[1]))
    /\ (bnd[2] # None => ~RGt(v, bnd[2]))

\* the fit parameters of the two scripts: all non-fixed parameters
\* (calc_ext.py), the explicit list of calc_ext_wG20.py
\* a list that also leaves out the tied parameters
NonFixedNorTied(model) ==
    SelectSeq(param_names, LAMBDA n : ~model.fixed[n] /\ model.tied[n] = "False")

NonFixed(model) ==
    SelectSeq(param_names, LAMBDA n : ~model.fixed[n])

wG20_fit_param_names ==
    <<"SIL1_amp_0", "FIR_amp_0">>

\* values an amplitude is given by a fit or a proposal
AmpVals ==
    {Int2R(-1), Zero, One, Int2R(2), Int2R(3), Int2R(6), Int2R(7)}

\* model objects whose free parameters respect their bounds
Models(scr) ==
    { [value |-> [n \in PNameSet |->
                    CASE n = "SIL1_amp_0" -> a
                      [] n = "FIR_amp_0" -> f
                      [] n = "FIR_lambda_0" -> Int2R(20)
                      [] OTHER -> Rat(-3, 2)],
       fixed |-> FixedFlags,
       bounds |-> b,
       tied |-> TiedFlags(scr)] :
      a \in {v \in AmpVals : TRUE}, f \in AmpVals, b \in BoundsChoices }

WithinBounds(model) ==
    \A n \in PNameSet : InBound(model.value[n], model.bounds[n])

NoCall ==
    [done |-> FALSE, params |-> <<>>, before |-> <<>>, ret |-> NaN,
     pnames |-> <<>>]

FitNamesOf(scr, model) ==
    IF scr = "calc_ext" THEN NonFixed(model) ELSE wG20_fit_param_names

\* parameter vectors handed to lnprob
ParamVecs(n) ==
    [1..n -> {Int2R(-1), One, Int2R(7)}]

\* one call lnprob(params, x, y, uncs, model_copy, fit_param_names)
LnprobCall ==
    \E params \in ParamVecs(Len(FitNamesOf(script, model_copy))) :
        LET pnames == FitNamesOf(script, model_copy)
            r == lnprob(script, params, data.x, data.y, data.uncs,
                        model_copy, pnames)
        IN  /\ model_copy' = r.model
            /\ lncall' = [done |-> TRUE, params |-> params,
                          before |-> model_copy.value, ret |-> r.ret,
                          pnames |-> pnames]
            /\ UNCHANGED <<script, data, shape_vars, pipe_vars, list_vars>>

(***************************************************************************)
(* Evaluating the curve shapes.  shape_in holds the arguments, shape_out   *)
(* the last evaluation, drude a Drude1D model object.                      *)
(***************************************************************************)
MaxX ==
    2

ShapeAmps ==
    {Rat(1, 2), Int2R(2)}

ShapeCens ==
    {Zero, Rat(1, 1000), Int2R(1000)}

\* widths and wavelengths are drawn relative to the centre
ShapeRel ==
    {Rat(1, 2), One, Int2R(2)}

ShapeRelWidths ==
    {Zero, Int2R(2)}

ShapeBs ==
    {Int2R(-1), Int2R(90)}

ShapeNs ==
    {-1, 2}

G20Terms ==
    {"BKG", "FUV", "NUV", "SIL1", "SIL2", "FIR"}

\* which amplitudes are nonzero: all, none, or a single one
ShapeOn ==
    {G20Terms, {}} \cup {{t} : t \in G20Terms}

\* the x array: 1/waves, optionally followed by the centre or by zero
ShapeXs(waves, cen) ==
    {s \in {<<RDiv(One, waves)>>,
            <<RDiv(One, waves), RDiv(One, cen)>>,
            <<RDiv(One, waves), Zero>>,
            <<RDiv(One, waves), RDiv(One, cen), Zero>>} : Len(s) <= MaxX}

NoShape ==
    [op |-> "none", exc |-> "none", res |-> None]

\* the parameters G20.evaluate is called with
G20Params(in) ==
    LET amp(t) == IF t \in in.on THEN in.amplitude ELSE Zero
    IN  [BKG_amp |-> amp("BKG"), BKG_lambda |-> in.cen_wave,
         BKG_b |-> in.b, BKG_n |-> in.n,
         FUV_amp |-> amp("FUV"), FUV_lambda |-> in.cen_wave,
         FUV_width |-> in.width,
         NUV_amp |-> amp("NUV"), NUV_lambda |-> in.cen_wave,
         NUV_width |-> in.width,
         SIL1_amp |-> amp("SIL1"), SIL1_lambda |-> in.cen_wave,
         SIL1_width |-> in.width,
         SIL2_amp |-> amp("SIL2"), SIL2_lambda |-> in.cen_wave,
         SIL2_width |-> in.width,
         FIR_amp |-> amp("FIR"), FIR_lambda |-> in.cen_wave,
         FIR_width |-> in.width]

ShapeInputs ==
    UNION { { [amplitude |-> a, cen_wave |-> c, width |-> RMul(w, c),
               b |-> bb, n |-> nn, waves |-> RMul(r, c), on |-> on,
               unit |-> un, xs |-> xs] :
              xs \in ShapeXs(RMul(r, c), c) } :
            a \in ShapeAmps, c \in ShapeCens, w \in ShapeRelWidths,
            bb \in ShapeBs, nn \in ShapeNs, r \in ShapeRel, on \in ShapeOn,
            un \in {"1/micron", "micron"} }

\* Drude1D(amplitude=..., x_0=..., fwhm=...); the default x_0 is 1.0
Drude1D_init(in) ==
    [amplitude |-> in.amplitude,
     x_0 |-> IF in.cen_wave = Zero THEN One ELSE in.cen_wave,
     fwhm |-> in.width]

Eval_g20_bkg_term ==
    /\ shape_out' = [op |-> "_g20_bkg_term", exc |-> "none",
                     res |-> _g20_bkg_term(shape_in.waves, shape_in.amplitude,
                                           shape_in.cen_wave, shape_in.b,
                                           shape_in.n)]
    /\ UNCHANGED <<list_vars, shape_in, drude, g20, ln_vars, pipe_vars>>

Eval_g20_drude_term ==
    /\ shape_out' = [op |-> "_g20_drude_term", exc |-> "none",
                     res |-> _g20_drude_term(shape_in.waves,
                                             shape_in.amplitude,
                                             shape_in.cen_wave,
                                             shape_in.width)]
    /\ UNCHANGED <<list_vars, shape_in, drude, g20, ln_vars, pipe_vars>>

\* calling the Drude1D model object evaluates it with its own parameters
Eval_Drude1D ==
    /\ shape_out' = [op |-> "Drude1D", exc |-> "none",
                     res |-> Drude1D_evaluate(shape_in.waves, drude.amplitude,
                                              drude.x_0, drude.fwhm)]
    /\ UNCHANGED <<list_vars, shape_in, drude, g20, ln_vars, pipe_vars>>

\* in_x is given in the unit asked for
Eval_G20 ==
    LET in_x == IF shape_in.unit = "micron"
                THEN Inverse(shape_in.xs)
                ELSE shape_in.xs
        r == G20_evaluate(in_x, shape_in.unit, G20Params(shape_in))
    IN  /\ shape_out' = [op |-> "G20", exc |-> r.exc, res |-> r.axav]
        /\ UNCHANGED <<list_vars, shape_in, drude, g20, ln_vars, pipe_vars>>

\* model.x_0 = val: the validator runs before the value is stored
Set_x_0 ==
    \E val \in {Zero, shape_in.cen_wave, RMul(Int2R(2), shape_in.cen_wave)} :
        LET e == x_0_validator(val)
        IN  /\ shape_out' = [op |-> "set_x_0", exc |-> e, res |-> val]
            /\ drude' = IF e = "none" THEN [drude EXCEPT !.x_0 = val]
                        ELSE drude
            /\ UNCHANGED <<list_vars, shape_in, g20, ln_vars, pipe_vars>>

(***************************************************************************)
(* The main script and p92_emcee.                                          *)
(*                                                                         *)
(* Amplitudes, y and its uncertainties are counted in units of the value   *)
(* p92_emcee gives to a zero parameter (0.1 in calc_ext.py, 2.4e-3 in      *)
(* calc_ext_wG20.py): the model is linear in its amplitudes, so lnprob     *)
(* does not depend on the unit.                                            *)
(*                                                                         *)
(* emcee moves the ensemble in two halves, each against the other; of the  *)
(* nwalkers = 10 * ndim walkers the model follows the first of each half.  *)
(***************************************************************************)
MaxBurn ==
    1

MaxSteps ==
    2

Tracked ==
    <<"first half", "second half">>

\* (x, y, y_unc) = extdata.get_fitdata(...)
FitData ==
    [x |-> <<Rat(1, 10), Rat(1, 20)>>,
     y |-> <<Int2R(4), Int2R(5)>>,
     uncs |-> <<One, Int2R(2)>>]

\* parser.parse_args(): --nburn and --nsteps exist in calc_ext_wG20.py only,
\* --eps in calc_ext.py only; the runs with --emcee are enumerated with no
\* format flag and with all of them
Args(scr) ==
    LET all == IF scr = "calc_ext"
               THEN [emcee : BOOLEAN, png : BOOLEAN, eps : BOOLEAN,
                     pdf : BOOLEAN]
               ELSE [emcee : BOOLEAN, nburn : 1..MaxBurn, nsteps : 1..MaxSteps,
                     png : BOOLEAN, pdf : BOOLEAN]
    IN  {a \in all :
           a.emcee => /\ a.png = a.pdf
                      /\ (scr = "calc_ext" => a.eps = a.png)}

\* p92_init = P92_Elv(...), then the fixed flags, the bounds and the tie
P92_Elv(scr, bounds) ==
    [value |-> [n \in PNameSet |->
                  CASE n = "SIL1_amp_0" -> One
                    [] n = "FIR_amp_0" -> One
                    [] n = "FIR_lambda_0" -> Int2R(20)
                    [] OTHER -> Rat(-3, 2)],
     fixed |-> FixedFlags,
     bounds |-> bounds,
     tied |-> TiedFlags(scr)]

\* values the fitter can give to a free amplitude
FitVals ==
    {Zero, One, Int2R(2)}

\* fit(p92_init, x, y, weights=1.0/y_unc): fixed parameters keep their
\* value, free ones end within their bounds, tied ones follow their tie
LevMarLSQFitter(init) ==
    LET free(n) == ~init.fixed[n] /\ init.tied[n] = "False"
        cands == { [init EXCEPT !.value = v] :
                   v \in { w \in [PNameSet -> FitVals \cup {init.value[n] :
                                                            n \in PNameSet}] :
                           \A n \in PNameSet :
                               ~free(n) => w[n] = init.value[n] } }
        tie(m) == IF m.tied["FIR_amp_0"] = "tie_amps_FIR_to_SIL1"
                  THEN SetValue(m, "FIR_amp_0", tie_amps_FIR_to_SIL1(m))
                  ELSE m
    IN  { m \in {tie(c) : c \in cands} :
            /\ WithinBounds(m)
            /\ \A n \in PNameSet : free(n) => m.value[n] \in FitVals }

\* the sampler lengths: nsteps = 500 and burn = 100 are written in
\* calc_ext.py, calc_ext_wG20.py takes them from the command line; the
\* model runs calc_ext.py with the largest lengths it allows
StepCounts(scr, a) ==
    IF scr = "calc_ext" THEN [burn |-> MaxBurn, nsteps |-> MaxSteps]
    ELSE [burn |-> a.nburn, nsteps |-> a.nsteps]

\* p0[p0 == 0.0] = 0.1 (2.4e-3): one unit of amplitude
ZeroReplaced(p0) ==
    [k \in 1..Len(p0) |-> IF p0[k] = Zero THEN One ELSE p0[k]]

\* draws of np.random.normal(0, 1.)
NormalDraws ==
    {-5000, 5000}

\* p0 * (1 + 1e-4 * np.random.normal(0, 1., ndim))
Perturbed(p0, draw) ==
    [k \in 1..Len(p0) |->
       RMul(p0[k], RAdd(One, RMul(Rat(1, 10000), Int2R(draw[k]))))]

\* a clamp that forgets the upper bounds
ClampNoMax(cp, bounds, names) ==
    [k \in 1..Len(cp) |->
       LET lo == bounds[names[k]][1]
       IN  IF lo # None /\ RLt(cp[k], lo) THEN lo ELSE cp[k]]

\* ensure all the walkers start within the bounds
Clamp(cp, bounds, names) ==
    [k \in 1..Len(cp) |->
       LET lo == bounds[names[k]][1]
           hi == bounds[names[k]][2]
           c1 == IF lo # None /\ RLt(cp[k], lo) THEN lo ELSE cp[k]
       IN  IF hi # None /\ RGt(c1, hi) THEN hi ELSE c1]

NoEm ==
    [fit_param_names |-> <<>>, ndim |-> 0, nwalkers |-> 0, nsteps |-> 0,
     burn |-> 0, p0 |-> <<>>, p_raw |-> <<>>, p |-> <<>>, burn_pos |-> <<>>,
     start |-> <<>>]

\* a map object: its items and the index of the next one it yields
NoMap ==
    [items |-> <<>>, next |-> 1]

EmptySampler ==
    [chain |-> [k \in 1..Len(Tracked) |-> <<>>],
     lnprobability |-> [k \in 1..Len(Tracked) |-> <<>>]]

\* p92_fit = fit(p92_init, x, y, weights=1.0/y_unc)
LSQFit ==
    /\ pc = "fit"
    /\ p92_fit' \in LevMarLSQFitter(p92_init)
    /\ pc' = IF args.emcee THEN "p92_emcee" ELSE "save"
    /\ hist' = Append(hist, "fit")
    /\ UNCHANGED <<list_vars, shape_vars, files, shown, curves,
                   ln_vars, args, exc, p92_init, em, sampler, pos,
                   prob, best_params, per_params, p92_fit_emcee, saved>>

\* p92_emcee(x, y, y_unc, model) up to the creation of the sampler
p92_emcee_setup(scr, model, counts, draws) ==
    LET names == FitNamesOf(scr, model)
        ndim == Len(names)
        p0 == ZeroReplaced([k \in 1..ndim |-> model.value[names[k]]])
        p_raw == [w \in 1..Len(Tracked) |-> Perturbed(p0, draws[w])]
    IN  [fit_param_names |-> names, ndim |-> ndim, nwalkers |-> 10 * ndim,
         nsteps |-> counts.nsteps, burn |-> counts.burn, p0 |-> p0,
         p_raw |-> p_raw,
         p |-> [w \in 1..Len(Tracked) |->
                  Clamp(p_raw[w], model.bounds, names)],
         burn_pos |-> <<>>, start |-> <<>>]

\* a main script that hands the initial guess to p92_emcee
EmceeSetupFromInit ==
    /\ pc = "p92_emcee"
    /\ \E draws \in [1..Len(Tracked) ->
                       [1..Len(FitNamesOf(script, p92_init)) -> NormalDraws]] :
           em' = p92_emcee_setup(script, p92_init, StepCounts(script, args),
                                 draws)
    /\ model_copy' = p92_init
    /\ sampler' = EmptySampler
    /\ pc' = "burn_start"
    /\ hist' = Append(hist, "p92_emcee")
    /\ UNCHANGED <<list_vars, shape_vars, files, shown, curves,
                   script, data, lncall, args, exc, p92_init,
                   p92_fit, pos, prob, best_params, per_params, p92_fit_emcee,
                   saved>>

\* if args.emcee: p92_emcee(x, y, y_unc, p92_fit, ...): the copy of the
\* model, the walkers and the sampler
EmceeSetup ==
    /\ pc = "p92_emcee"
    /\ \E draws \in [1..Len(Tracked) ->
                       [1..Len(FitNamesOf(script, p92_fit)) -> NormalDraws]] :
           em' = p92_emcee_setup(script, p92_fit, StepCounts(script, args),
                                 draws)
    /\ model_copy' = p92_fit
    /\ sampler' = EmptySampler
    /\ pc' = "burn_start"
    /\ hist' = Append(hist, "p92_emcee")
    /\ UNCHANGED <<list_vars, shape_vars, files, shown, curves,
                   script, data, lncall, args, exc, p92_init,
                   p92_fit, pos, prob, best_params, per_params, p92_fit_emcee,
                   saved>>

(***************************************************************************)
(* emcee.EnsembleSampler with threads=1: lnprob is called for one walker   *)
(* after the other, always on the same model_copy.                         *)
(***************************************************************************)
\* lnprob for every position of ps, in order: [model, lnp]
RECURSIVE _get_lnprob(_, _, _, _, _)
_get_lnprob(scr, ps, d, model, names) ==
    IF Len(ps) = 0 THEN [model |-> model, lnp |-> <<>>]
    ELSE LET r == lnprob(scr, ps[1], d.x, d.y, d.uncs, model, names)
             rest == _get_lnprob(scr, Tail(ps), d, r.model, names)
         IN  [model |-> rest.model, lnp |-> <<r.ret>> \o rest.lnp]

\* the stretch factor z of a proposal, at the end of its range [1/a, a], a = 2
ZDraws ==
    {2}

\* np.log(z) for the factors drawn
Ln(z) ==
    IF z = 2 THEN Rat(693, 1000) ELSE Zero

\* draws of np.log(rstate.rand()): rand close to 1 and rand = exp(-3)
LogRandDraws ==
    {Rat(-1, 1000), Int2R(-3)}

\* the move of walker w against walker c of the other half:
\*   q = c - z * (c - s); newlnprob = lnprob(q)
\*   lnpdiff = (ndim - 1) * log(z) + newlnprob - lnprob0
\*   accept = lnpdiff > log(rand)
_propose_stretch(scr, st, w, c, z, logu, d, names) ==
    LET ndim == Len(names)
        q == [k \in 1..ndim |->
                RSub(st.pos[c][k],
                     RMul(Int2R(z), RSub(st.pos[c][k], st.pos[w][k])))]
        r == lnprob(scr, q, d.x, d.y, d.uncs, st.model, names)
        lnpdiff == RSub(RAdd(RMul(Int2R(ndim - 1), Ln(z)), r.ret), st.lnp[w])
        accept == RGt(lnpdiff, logu)
    IN  [pos |-> IF accept THEN [st.pos EXCEPT ![w] = q] ELSE st.pos,
         lnp |-> IF accept THEN [st.lnp EXCEPT ![w] = r.ret] ELSE st.lnp,
         model |-> r.model]

\* one iteration of sample(): the first half moves, then the second
RECURSIVE sample_iteration(_, _, _, _, _, _, _)
sample_iteration(scr, st, w, zs, logus, d, names) ==
    IF w > Len(Tracked) THEN st
    ELSE sample_iteration(scr,
             _propose_stretch(scr, st, w,
                              CHOOSE c \in 1..Len(Tracked) : c # w,
                              zs[w], logus[w], d, names),
             w + 1, zs, logus, d, names)

\* run_mcmc(p, N) begins: lnprob0 is computed for the positions given; a nan
\* among them raises ValueError
RunStart(p0, next_pc, ev) ==
    LET r == _get_lnprob(script, p0, data, model_copy, em.fit_param_names)
        bad == \E w \in 1..Len(p0) : IsNaN(r.lnp[w])
    IN  /\ model_copy' = r.model
        /\ pos' = p0
        /\ prob' = r.lnp
        /\ exc' = IF bad THEN "ValueError" ELSE "none"
        /\ pc' = IF bad THEN "aborted" ELSE next_pc
        /\ hist' = Append(hist, ev)
        /\ UNCHANGED <<list_vars, shape_vars, files, shown, curves,
                       script, data, lncall, args, p92_init,
                       p92_fit, sampler, best_params, per_params,
                       p92_fit_emcee, saved>>

\* one iteration of run_mcmc: the positions and log-probabilities it ends
\* with are stored in chain and lnprobability
RunStep(ev) ==
    \E zs \in [1..Len(Tracked) -> ZDraws],
       logus \in [1..Len(Tracked) -> LogRandDraws] :
        \E st \in {sample_iteration(script,
                      [pos |-> pos, lnp |-> prob, model |-> model_copy], 1,
                      zs, logus, data, em.fit_param_names)} :
            /\ pos' = st.pos
            /\ prob' = st.lnp
            /\ model_copy' = st.model
            /\ sampler' =
                 [chain |-> [w \in 1..Len(Tracked) |->
                               Append(sampler.chain[w], st.pos[w])],
                  lnprobability |-> [w \in 1..Len(Tracked) |->
                               Append(sampler.lnprobability[w], st.lnp[w])]]
            /\ hist' = Append(hist, ev)
            /\ UNCHANGED <<list_vars, shape_vars, files, shown, curves,
                           script, data, lncall, args, exc, pc,
                           p92_init, p92_fit, best_params, per_params,
                           p92_fit_emcee, saved>>

iterations ==
    Len(sampler.chain[1])

\* pos, prob, state = sampler.run_mcmc(p, burn)
BurnStart ==
    /\ pc = "burn_start"
    /\ RunStart(em.p, "burn", "burn_start")
    /\ em' = em

BurnStep ==
    /\ pc = "burn"
    /\ iterations < em.burn
    /\ RunStep("burn_step")
    /\ em' = em

\* a reset that keeps the samples of the burn
ResetKeepsChain ==
    /\ pc = "burn"
    /\ iterations = em.burn
    /\ em' = [em EXCEPT !.burn_pos = pos]
    /\ pc' = "sample_start"
    /\ hist' = Append(hist, "reset")
    /\ UNCHANGED <<list_vars, shape_vars, files, shown, curves,
                   ln_vars, args, exc, p92_init, p92_fit, pos,
                   prob, sampler, best_params, per_params, p92_fit_emcee,
                   saved>>

\* sampler.reset(), once run_mcmc(p, burn) has returned
Reset ==
    /\ pc = "burn"
    /\ iterations = em.burn
    /\ em' = [em EXCEPT !.burn_pos = pos]
    /\ sampler' = EmptySampler
    /\ pc' = "sample_start"
    /\ hist' = Append(hist, "reset")
    /\ UNCHANGED <<list_vars, shape_vars, files, shown, curves,
                   ln_vars, args, exc, p92_init, p92_fit, pos,
                   prob, best_params, per_params, p92_fit_emcee, saved>>

\* pos, prob, state = sampler.run_mcmc(pos, nsteps, rstate0=state)
SampleStart ==
    /\ pc = "sample_start"
    /\ RunStart(pos, "sample", "sample_start")
    /\ em' = [em EXCEPT !.start = pos]

SampleStep ==
    /\ pc = "sample"
    /\ iterations < em.nsteps
    /\ RunStep("sample_step")
    /\ em' = em

(***************************************************************************)
(* The results of the sampling.                                            *)
(***************************************************************************)
\* np.max of a row of lnprobability
RECURSIVE MaxOf(_)
MaxOf(s) ==
    IF Len(s) = 1 THEN s[1]
    ELSE LET m == MaxOf(Tail(s))
         IN  IF RLt(s[1], m) THEN m ELSE s[1]

\* max_lnp = -1e32: every finite log-probability of the model is above it,
\* -inf and nan are not
max_lnp_initial ==
    NegInf

RECURSIVE get_best_fit_params_loop(_, _, _, _)
get_best_fit_params_loop(smp, k, max_lnp, fit_params_best) ==
    IF k > Len(smp.lnprobability) THEN fit_params_best
    ELSE LET tmax_lnp == MaxOf(smp.lnprobability[k])
             indxs == {i \in 1..Len(smp.lnprobability[k]) :
                           smp.lnprobability[k][i] = tmax_lnp}
             first == CHOOSE i \in indxs : \A j \in indxs : i <= j
         IN  IF RGt(tmax_lnp, max_lnp)
             THEN get_best_fit_params_loop(smp, k + 1, tmax_lnp,
                                           smp.chain[k][first])
             ELSE get_best_fit_params_loop(smp, k + 1, max_lnp,
                                           fit_params_best)

get_best_fit_params(smp) ==
    get_best_fit_params_loop(smp, 1, max_lnp_initial, None)

\* sampler.chain.reshape((-1, ndim)): the samples of walker 1, then walker 2
RECURSIVE Flatten(_)
Flatten(chain) ==
    IF Len(chain) = 0 THEN <<>> ELSE chain[1] \o Flatten(Tail(chain))

RECURSIVE Sorted(_)
Sorted(s) ==
    IF Len(s) = 0 THEN <<>>
    ELSE LET rest == Sorted(Tail(s))
             below == SelectSeq(rest, LAMBDA v : RLt(v, s[1]))
             above == SelectSeq(rest, LAMBDA v : ~RLt(v, s[1]))
         IN  below \o <<s[1]>> \o above

\* np.percentile(col, q): linear interpolation at index (N - 1) * q / 100
Percentile(col, q) ==
    LET s == Sorted(col)
        h == (Len(s) - 1) * q
        lo == (h \div 100) + 1
        frac == Rat(h % 100, 100)
    IN  IF lo >= Len(s) THEN s[Len(s)]
        ELSE RAdd(s[lo], RMul(frac, RSub(s[lo + 1], s[lo])))

\* a triple with the two uncertainties exchanged
TripleSwapped(v) ==
    <<v[2], RSub(v[2], v[1]), RSub(v[3], v[2])>>

\* lambda v: (v[1], v[2]-v[1], v[1]-v[0]) on (p16, p50, p84)
Triple(v) ==
    <<v[2], RSub(v[3], v[2]), RSub(v[2], v[1])>>

\* map(lambda ..., zip(*np.percentile(samples, [16, 50, 84], axis=0)))
PerParams(samples, ndim) ==
    [k \in 1..ndim |->
       LET col == [i \in 1..Len(samples) |-> samples[i][k]]
       IN  Triple(<<Percentile(col, 16), Percentile(col, 50),
                    Percentile(col, 84)>>)]

\* a loop that writes best_params[k] in both scripts
RECURSIVE SetLoopBest(_, _, _, _, _, _)
SetLoopBest(scr, model, names, items, best, k) ==
    IF k > Len(items) THEN [model |-> model, next |-> k, exc |-> "none"]
    ELSE IF best = None THEN [model |-> model, next |-> k + 1,
                              exc |-> "TypeError"]
    ELSE SetLoopBest(scr, SetValue(model, names[k], best[k]), names, items,
                     best, k + 1)

\* for k, val in enumerate(per_params): the value written to the model is
\* best_params[k] in calc_ext.py and val[0] in calc_ext_wG20.py; the loop
\* stops at the first item when best_params is None
RECURSIVE SetLoop(_, _, _, _, _, _)
SetLoop(scr, model, names, items, best, k) ==
    IF k > Len(items) THEN [model |-> model, next |-> k, exc |-> "none"]
    ELSE IF scr = "calc_ext"
    THEN IF best = None THEN [model |-> model, next |-> k + 1,
                              exc |-> "TypeError"]
         ELSE SetLoop(scr, SetValue(model, names[k], best[k]), names, items,
                      best, k + 1)
    ELSE IF best = None THEN [model |-> SetValue(model, names[k], items[k][1]),
                              next |-> k + 1, exc |-> "TypeError"]
         ELSE SetLoop(scr, SetValue(model, names[k], items[k][1]), names,
                      items, best, k + 1)

\* pname[:-2]
CleanName(n) ==
    CASE n = "SIL1_amp_0" -> "SIL1_amp"
      [] n = "FIR_amp_0" -> "FIR_amp"
      [] n = "FIR_lambda_0" -> "FIR_lambda"
      [] OTHER -> "FIR_b"

\* a p92_emcee that works on the model it was given, without a copy
DeriveOnInput ==
    /\ pc = "sample"
    /\ iterations = em.nsteps
    /\ LET best == get_best_fit_params(sampler)
           items == PerParams(Flatten(sampler.chain), em.ndim)
           r == SetLoop(script, model_copy, em.fit_param_names, items, best, 1)
           attrs == IF script = "calc_ext" THEN <<>>
                    ELSE [p92_emcee_param_names |->
                              [k \in 1..em.ndim |->
                                 CleanName(em.fit_param_names[k])],
                          p92_emcee_per_params |->
                              [items |-> items, next |-> r.next]]
       IN  /\ best_params' = best
           /\ per_params' = [items |-> items, next |-> r.next]
           /\ model_copy' = r.model
           /\ exc' = r.exc
           /\ pc' = IF r.exc = "none" THEN "save" ELSE "aborted"
           /\ p92_fit_emcee' = IF r.exc = "none"
                               THEN [model |-> r.model, attrs |-> attrs]
                               ELSE p92_fit_emcee
           /\ p92_fit' = IF r.exc = "none" THEN r.model ELSE p92_fit
           /\ files' = IF r.exc = "none"
                       THEN files \o <<"walker_param_values.png",
                                       "param_triangle.png">>
                       ELSE files
    /\ hist' = Append(hist, "derive")
    /\ UNCHANGED <<list_vars, shape_vars, shown, curves,
                   script, data, lncall, args, p92_init,
                   em, sampler, pos, prob, saved>>

\* the rest of p92_emcee, once run_mcmc(pos, nsteps) has returned, with the
\* two diagnostic figures (written by plot_emcee_results in calc_ext_wG20.py)
Derive ==
    /\ pc = "sample"
    /\ iterations = em.nsteps
    /\ LET best == get_best_fit_params(sampler)
           items == PerParams(Flatten(sampler.chain), em.ndim)
           r == SetLoop(script, model_copy, em.fit_param_names, items, best, 1)
           attrs == IF script = "calc_ext" THEN <<>>
                    ELSE [p92_emcee_param_names |->
                              [k \in 1..em.ndim |->
                                 CleanName(em.fit_param_names[k])],
                          p92_emcee_per_params |->
                              [items |-> items, next |-> r.next]]
       IN  /\ best_params' = best
           /\ per_params' = [items |-> items, next |-> r.next]
           /\ model_copy' = r.model
           /\ exc' = r.exc
           /\ pc' = IF r.exc = "none" THEN "save" ELSE "aborted"
           /\ p92_fit_emcee' = IF r.exc = "none"
                               THEN [model |-> r.model, attrs |-> attrs]
                               ELSE p92_fit_emcee
           /\ files' = IF r.exc = "none"
                       THEN files \o <<"walker_param_values.png",
                                       "param_triangle.png">>
                       ELSE files
    /\ hist' = Append(hist, "derive")
    /\ UNCHANGED <<list_vars, shape_vars, shown, curves,
                   script, data, lncall, args, p92_init, p92_fit,
                   em, sampler, pos, prob, saved>>

\* a save that prefers the parameters of the MCMC result
SaveEmceeResult ==
    /\ pc = "save"
    /\ LET best == IF args.emcee THEN p92_fit_emcee.model ELSE p92_fit
       IN  saved' = <<[k \in 1..Len(param_names) |-> CleanName(param_names[k])],
                      [k \in 1..Len(param_names) |-> best.value[param_names[k]]]>>
    /\ files' = Append(files, "ext.fits")
    /\ pc' = "plot"
    /\ hist' = Append(hist, "save")
    /\ UNCHANGED <<list_vars, shape_vars, shown, curves,
                   ln_vars, args, exc, p92_init, p92_fit, em,
                   sampler, pos, prob, best_params, per_params, p92_fit_emcee>>

\* extdata.save(out_fname, p92_best_params=(clean_pnames, p92_fit.parameters))
Save ==
    /\ pc = "save"
    /\ saved' = <<[k \in 1..Len(param_names) |-> CleanName(param_names[k])],
                  [k \in 1..Len(param_names) |-> p92_fit.value[param_names[k]]]>>
    /\ files' = Append(files, "ext.fits")
    /\ pc' = "plot"
    /\ hist' = Append(hist, "save")
    /\ UNCHANGED <<list_vars, shape_vars, shown, curves,
                   ln_vars, args, exc, p92_init, p92_fit, em,
                   sampler, pos, prob, best_params, per_params, p92_fit_emcee>>

\* redstarobs = StarData(...) ; compstarobs = StarData(...)
ReadStarData ==
    /\ pc = "read"
    /\ pc' = "calc"
    /\ hist' = Append(hist, "read")
    /\ UNCHANGED <<list_vars, shape_vars, ln_vars, args, exc, p92_init, p92_fit, em,
                   sampler, pos, prob, best_params, per_params, p92_fit_emcee,
                   saved, files, shown, curves>>

\* extdata.calc_elv(redstarobs, compstarobs) (calc_elx in calc_ext_wG20.py)
\* and extdata.get_fitdata(...)
CalcExtinction ==
    /\ pc = "calc"
    /\ pc' = "fit"
    /\ hist' = Append(hist, "calc")
    /\ UNCHANGED <<list_vars, shape_vars, ln_vars, args, exc, p92_init, p92_fit, em,
                   sampler, pos, prob, best_params, per_params, p92_fit_emcee,
                   saved, files, shown, curves>>

\* exec("p92_fit_emcee.{}.value = {}".format(pname, ...)) for every pname
SetValues(model, names, vals) ==
    [model EXCEPT !.value =
        [n \in PNameSet |->
           IF \E k \in 1..Len(names) : names[k] = n
           THEN vals[CHOOSE k \in 1..Len(names) : names[k] = n]
           ELSE model.value[n]]]

\* ax.plot(1.0 / x, model(x), ..., label=label)
Curve(label, model) ==
    [label |-> label,
     y |-> [i \in 1..Len(data.x) |-> ModelCall(model, data.x[i])]]

\* the model curves of the final figure.  calc_ext_wG20.py first writes every
\* sample of the first walker into p92_fit_emcee and draws it, then draws
\* p92_fit_emcee with the label "EMCEE Fits"
Plot ==
    /\ pc = "plot"
    /\ IF script = "calc_ext"
       THEN /\ curves' = <<Curve("Initial guess", p92_init),
                           Curve("Fitted model", p92_fit)>>
                         \o (IF args.emcee
                             THEN <<Curve("emcee model", p92_fit_emcee.model)>>
                             ELSE <<>>)
            /\ UNCHANGED <<p92_fit_emcee, model_copy>>
       ELSE IF args.emcee
       THEN LET nsteps == Len(sampler.chain[1])
                at(j) == SetValues(p92_fit_emcee.model, em.fit_param_names,
                                   sampler.chain[1][j])
            IN  /\ curves' = [j \in 1..nsteps |-> Curve("", at(j))]
                             \o <<Curve("EMCEE Fits", at(nsteps)),
                                  Curve("P92 Init", p92_init),
                                  Curve("P92 Best Fit", p92_fit)>>
                /\ p92_fit_emcee' = [p92_fit_emcee EXCEPT !.model = at(nsteps)]
                /\ model_copy' = at(nsteps)
       ELSE /\ curves' = <<Curve("P92 Init", p92_init),
                           Curve("P92 Best Fit", p92_fit)>>
            /\ UNCHANGED <<p92_fit_emcee, model_copy>>
    /\ pc' = "output"
    /\ hist' = Append(hist, "plot")
    /\ UNCHANGED <<list_vars, shape_vars, script, data, lncall, args, exc, p92_init,
                   p92_fit, em, sampler, pos, prob, best_params, per_params,
                   saved, files, shown>>

\* an output step with an if for every flag
OutputEveryFlag ==
    /\ pc = "output"
    /\ files' = files
                \o (IF args.png THEN <<"ext.png">> ELSE <<>>)
                \o (IF script = "calc_ext" /\ args.eps THEN <<"ext.eps">>
                    ELSE <<>>)
                \o (IF args.pdf THEN <<"ext.pdf">> ELSE <<>>)
    /\ shown' = ~(args.png \/ args.pdf \/ (script = "calc_ext" /\ args.eps))
    /\ pc' = "done"
    /\ hist' = Append(hist, "output")
    /\ UNCHANGED <<list_vars, shape_vars, ln_vars, args, exc, p92_init, p92_fit, em,
                   sampler, pos, prob, best_params, per_params, p92_fit_emcee,
                   saved, curves>>

\* plot or save to a file: if args.png / elif args.eps (calc_ext.py only) /
\* elif args.pdf / else plt.show()
Output ==
    /\ pc = "output"
    /\ IF args.png
       THEN files' = Append(files, "ext.png") /\ shown' = shown
       ELSE IF script = "calc_ext" /\ args.eps
       THEN files' = Append(files, "ext.eps") /\ shown' = shown
       ELSE IF args.pdf
       THEN files' = Append(files, "ext.pdf") /\ shown' = shown
       ELSE files' = files /\ shown' = TRUE
    /\ pc' = "done"
    /\ hist' = Append(hist, "output")
    /\ UNCHANGED <<list_vars, shape_vars, ln_vars, args, exc, p92_init, p92_fit, em,
                   sampler, pos, prob, best_params, per_params, p92_fit_emcee,
                   saved, curves>>

\* the steps of the main script that call into the libraries and can raise
Steps ==
    {"read", "calc", "fit", "p92_emcee", "save", "plot", "output"}

\* an exception that is caught: the step at hand is tried again
RaiseAndRetry ==
    /\ pc \in Steps
    /\ exc' = "Exception"
    /\ pc' = pc
    /\ hist' = Append(hist, "raise")
    /\ UNCHANGED <<list_vars, shape_vars, ln_vars, args, p92_init, p92_fit, em, sampler,
                   pos, prob, best_params, per_params, p92_fit_emcee, saved,
                   files, shown, curves>>

\* an exception raised by the step at hand: nothing catches it
Raise ==
    /\ pc \in Steps
    /\ exc' = "Exception"
    /\ pc' = "aborted"
    /\ hist' = Append(hist, "raise")
    /\ UNCHANGED <<list_vars, shape_vars, ln_vars, args, p92_init, p92_fit, em, sampler,
                   pos, prob, best_params, per_params, p92_fit_emcee, saved,
                   files, shown, curves>>

(***************************************************************************)
(* A G20 model object: its parameter values within their declared bounds,  *)
(* and the curve it returns when it is called.                             *)
(***************************************************************************)
\* the centre wavelength of every term
G20_lambda ==
    [t \in G20Terms |->
       CASE t = "BKG" -> "BKG_lambda"
         [] t = "FUV" -> "FUV_lambda"
         [] t = "NUV" -> "NUV_lambda"
         [] t = "SIL1" -> "SIL1_lambda"
         [] t = "SIL2" -> "SIL2_lambda"
         [] OTHER -> "FIR_lambda"]

\* Parameter(..., min=0.0) and Parameter(..., bounds=(lo, hi)) of the centres
G20_bounds ==
    [t \in G20Terms |->
       CASE t = "BKG" -> <<Zero, None>>
         [] t = "FUV" -> <<Rat(6, 100), Rat(8, 100)>>
         [] t = "NUV" -> <<Rat(20, 100), Rat(24, 100)>>
         [] t = "SIL1" -> <<Int2R(7), Int2R(13)>>
         [] t = "SIL2" -> <<Int2R(15), Int2R(23)>>
         [] OTHER -> <<Int2R(20), Int2R(30)>>]

\* the amplitudes at their min=0.0, the other parameters at their defaults
\* (the centre of the background term at 1 rather than 0.047)
G20_defaults ==
    [BKG_amp |-> Zero, BKG_lambda |-> One, BKG_b |-> Int2R(90), BKG_n |-> 2,
     FUV_amp |-> Zero, FUV_lambda |-> Rat(7, 100), FUV_width |-> One,
     NUV_amp |-> Zero, NUV_lambda |-> Rat(22, 100), NUV_width |-> One,
     SIL1_amp |-> Zero, SIL1_lambda |-> Int2R(10), SIL1_width |-> One,
     SIL2_amp |-> Zero, SIL2_lambda |-> Int2R(18), SIL2_width |-> One,
     FIR_amp |-> Zero, FIR_lambda |-> Int2R(25), FIR_width |-> One]

\* the values a fit can leave in a centre: an edge of its declared bounds,
\* or its default where a bound is open
G20_centres(t) ==
    {IF G20_bounds[t][1] = None THEN G20_defaults[G20_lambda[t]]
     ELSE G20_bounds[t][1],
     IF G20_bounds[t][2] = None THEN G20_defaults[G20_lambda[t]]
     ELSE G20_bounds[t][2]}

G20_init(P, x) ==
    [P |-> P, x |-> x, called |-> FALSE, exc |-> "none", axav |-> None]

\* G20 models whose parameters respect the declared bounds
G20Models ==
    { [G20_defaults EXCEPT !.BKG_amp = a, !.BKG_lambda = c["BKG"],
                           !.FUV_lambda = c["FUV"], !.NUV_lambda = c["NUV"],
                           !.SIL1_lambda = c["SIL1"], !.SIL2_lambda = c["SIL2"],
                           !.FIR_lambda = c["FIR"]] :
      a \in {Zero, One},
      c \in {f \in [G20Terms -> UNION {G20_centres(t) : t \in G20Terms}] :
               \A t \in G20Terms : f[t] \in G20_centres(t)} }

\* g20_fit(x): evaluate with the parameter values the model holds
G20_call ==
    /\ ~g20.called
    /\ LET r == G20_evaluate(g20.x, "1/micron", g20.P)
       IN  g20' = [g20 EXCEPT !.called = TRUE, !.exc = r.exc, !.axav = r.axav]
    /\ UNCHANGED <<shape_in, shape_out, drude, ln_vars, pipe_vars, list_vars>>

(***************************************************************************)
(* The plotting scripts plot_uv_mir_mext.py and Figs/plot_uv_mir_mext.py:  *)
(* reading the file list.  A line is the sequence of its characters.       *)
(***************************************************************************)
PlotScripts ==
    {"plot_uv_mir_mext", "Figs/plot_uv_mir_mext"}

MaxLines ==
    3

\* the lines a file list is made of: a comment, an empty line, three names
LineChoices ==
    {<<"#", "a", "\n">>, <<"\n">>, <<"a", "\n">>, <<"b", "\n">>,
     <<"c", "\n">>}

FileLists ==
    UNION {[1..n -> LineChoices] : n \in 0..MaxLines}

\* line.find(ch): the index of the first ch, counted from 0, or -1
find(line, ch) ==
    IF \E i \in 1..Len(line) : line[i] = ch
    THEN (CHOOSE i \in 1..Len(line) :
              line[i] = ch /\ \A j \in 1..(i - 1) : line[j] # ch) - 1
    ELSE -1

RECURSIVE rstrip(_)
rstrip(line) ==
    IF Len(line) > 0 /\ line[Len(line)] \in {" ", "\n", "\t"}
    THEN rstrip(SubSeq(line, 1, Len(line) - 1))
    ELSE line

\* the extinction curves in fits/: A(V), whether IUE data exist, and the
\* IUE extinctions with npts > 0 between 0.25 and 0.30 micron
FitsDir ==
    [n \in {<<"a">>, <<"b">>, <<"c">>} |->
       CASE n = <<"a">> -> [name |-> n, AV |-> One, iue |-> TRUE,
                            exts |-> <<One, Int2R(3)>>]
         [] n = <<"b">> -> [name |-> n, AV |-> Int2R(2), iue |-> TRUE,
                            exts |-> <<Int2R(2)>>]
         [] OTHER -> [name |-> n, AV |-> Int2R(3), iue |-> FALSE,
                      exts |-> <<>>]]

\* ExtData(filename="fits/%s" % name): None stands for the exception raised
\* when fits/name is not a file
ExtData(name) ==
    IF name \in DOMAIN FitsDir THEN FitsDir[name] ELSE None

\* np.average(exts[gindxs] / float(AV) + 1.0), or 1.0 without IUE data
NormVal(text) ==
    IF text.iue
    THEN RDiv(SumSeq([i \in 1..Len(text.exts) |->
                        RAdd(RDiv(text.exts[i], text.AV), One)]),
              Int2R(Len(text.exts)))
    ELSE One

\* one pass of `for line in file_lines`
ReadLine ==
    /\ plot_pc = "lines"
    /\ line_no <= Len(file_lines)
    /\ LET line == file_lines[line_no]
       IN  IF find(line, "#") # 0 /\ Len(line) > 0
           THEN LET name == rstrip(line)
                    text == ExtData(name)
                IN  /\ extnames' = Append(extnames, name)
                    /\ IF text = None
                       THEN /\ plot_exc' = "OSError"
                            /\ plot_pc' = "aborted"
                            /\ UNCHANGED <<extdatas, avs, normvals, line_no>>
                       ELSE /\ extdatas' = Append(extdatas, text)
                            /\ avs' = Append(avs, text.AV)
                            /\ normvals' = Append(normvals, NormVal(text))
                            /\ line_no' = line_no + 1
                            /\ UNCHANGED <<plot_exc, plot_pc>>
           ELSE /\ normvals' = Append(normvals, One)
                /\ line_no' = line_no + 1
                /\ UNCHANGED <<extnames, extdatas, avs, plot_exc, plot_pc>>
    /\ UNCHANGED <<plot_script, file_lines, drawn, shape_vars, ln_vars,
                   pipe_vars>>

\* np.flip(np.argsort(a)): the indices that put a in descending order
FlippedArgsorts(a) ==
    {f \in Permutations(1..Len(a)) :
        \A i, j \in 1..Len(a) : i < j => ~RLt(a[f[i]], a[f[j]])}

\* the rest of the script up to the figure: plot_uv_mir_mext.py reorders
\* normvals and extnames by sindxs, both scripts then read the curves again
Reorder ==
    /\ plot_pc = "lines"
    /\ line_no > Len(file_lines)
    /\ IF plot_script = "plot_uv_mir_mext"
       THEN \E sindxs \in FlippedArgsorts(normvals) :
                /\ normvals' = [i \in 1..Len(sindxs) |-> normvals[sindxs[i]]]
                /\ IF \E i \in 1..Len(sindxs) : sindxs[i] > Len(extnames)
                   THEN /\ plot_exc' = "IndexError"
                        /\ plot_pc' = "aborted"
                        /\ UNCHANGED <<extnames, extdatas, avs>>
                   ELSE /\ extnames' = [i \in 1..Len(sindxs) |->
                                          extnames[sindxs[i]]]
                        /\ extdatas' = [i \in 1..Len(sindxs) |->
                                          ExtData(extnames[sindxs[i]])]
                        /\ avs' = [i \in 1..Len(sindxs) |->
                                     ExtData(extnames[sindxs[i]]).AV]
                        /\ plot_pc' = "plot"
                        /\ UNCHANGED plot_exc
       ELSE /\ extdatas' = [i \in 1..Len(extnames) |-> ExtData(extnames[i])]
            /\ avs' = [i \in 1..Len(extnames) |-> ExtData(extnames[i]).AV]
            /\ plot_pc' = "plot"
            /\ UNCHANGED <<normvals, extnames, plot_exc>>
    /\ UNCHANGED <<plot_script, file_lines, line_no, drawn, shape_vars,
                   ln_vars, pipe_vars>>

\* plot_all_ext(ax[0], ..., normvals=normvals): curve i is extdatas[k] drawn
\* with normvals[k] and the text of extnames[k], k = sindxs[i] = i
plot_all_ext ==
    /\ plot_pc = "plot"
    /\ drawn' = [i \in 1..Len(extnames) |->
                   [extdata |-> extdatas[i].name, normval |-> normvals[i],
                    text |-> extnames[i]]]
    /\ plot_pc' = "done"
    /\ UNCHANGED <<plot_script, file_lines, line_no, extnames, extdatas, avs,
                   normvals, plot_exc, shape_vars, ln_vars, pipe_vars>>

(***************************************************************************)
(* Specifications.                                                         *)
(***************************************************************************)
vars ==
    <<shape_vars, ln_vars, pipe_vars, list_vars>>

NoShapeIn ==
    [amplitude |-> One, cen_wave |-> One, width |-> One, b |-> Zero, n |-> 2,
     waves |-> One, on |-> {}, unit |-> "1/micron", xs |-> <<One>>]

IdleFileList ==
    /\ plot_script = "plot_uv_mir_mext"
    /\ file_lines = <<>>
    /\ line_no = 1
    /\ extnames = <<>>
    /\ extdatas = <<>>
    /\ avs = <<>>
    /\ normvals = <<>>
    /\ plot_pc = "done"
    /\ plot_exc = "none"
    /\ drawn = <<>>

IdleShapes ==
    /\ shape_in = NoShapeIn
    /\ shape_out = NoShape
    /\ drude = Drude1D_init(NoShapeIn)
    /\ g20 = G20_init(G20_defaults, <<One>>)

IdlePipeline ==
    /\ args = [emcee |-> FALSE]
    /\ pc = "done"
    /\ exc = "none"
    /\ p92_init = None
    /\ p92_fit = None
    /\ em = NoEm
    /\ sampler = EmptySampler
    /\ pos = None
    /\ prob = None
    /\ best_params = None
    /\ per_params = NoMap
    /\ p92_fit_emcee = None
    /\ saved = None
    /\ hist = <<>>
    /\ files = <<>>
    /\ shown = FALSE
    /\ curves = <<>>
    /\ IdleFileList

IdleLnprob ==
    /\ script = "calc_ext_wG20"
    /\ data \in {d \in DataChoices : Len(d.x) = 1}
    /\ model_copy = None
    /\ lncall = NoCall
    /\ IdlePipeline

\* the curve shapes, applied to arguments drawn from the sets above
InitShapes ==
    /\ shape_in \in ShapeInputs
    /\ shape_out = NoShape
    /\ drude = Drude1D_init(shape_in)
    /\ g20 = G20_init(G20_defaults, <<One>>)
    /\ IdleLnprob

NextShapes ==
    \/ Eval_g20_bkg_term
    \/ Eval_g20_drude_term
    \/ Eval_Drude1D
    \/ Eval_G20
    \/ Set_x_0

SpecShapes ==
    InitShapes /\ [][NextShapes]_vars

\* lnprob called with any vectors in any order on one model object
InitLnprob ==
    /\ script \in Scripts
    /\ data \in DataChoices
    /\ model_copy \in {m \in Models(script) : WithinBounds(m)}
    /\ lncall = NoCall
    /\ IdleShapes
    /\ IdlePipeline

SpecLnprob ==
    InitLnprob /\ [][LnprobCall]_vars

\* the script as it starts: the command line, the data the star files hold
\* and the initial guess built from them
Init ==
    /\ script \in Scripts
    /\ data = FitData
    /\ args \in Args(script)
    /\ p92_init \in {P92_Elv(script, b) : b \in BoundsChoices}
    /\ pc = "read"
    /\ exc = "none"
    /\ p92_fit = None
    /\ model_copy = None
    /\ em = NoEm
    /\ sampler = EmptySampler
    /\ pos = None
    /\ prob = None
    /\ best_params = None
    /\ per_params = NoMap
    /\ p92_fit_emcee = None
    /\ saved = None
    /\ hist = <<>>
    /\ files = <<>>
    /\ shown = FALSE
    /\ curves = <<>>
    /\ lncall = NoCall
    /\ IdleShapes
    /\ IdleFileList

\* the main script from the star data to the final figure
Next ==
    \/ ReadStarData
    \/ CalcExtinction
    \/ LSQFit
    \/ EmceeSetup
    \/ BurnStart
    \/ BurnStep
    \/ Reset
    \/ SampleStart
    \/ SampleStep
    \/ Derive
    \/ Save
    \/ Plot
    \/ Output
    \/ Raise

Spec ==
    Init /\ [][Next]_vars

\* a G20 model within its declared bounds, called at x = 1
InitG20 ==
    /\ g20 \in {G20_init(P, <<One>>) : P \in G20Models}
    /\ shape_in = NoShapeIn
    /\ shape_out = NoShape
    /\ drude = Drude1D_init(NoShapeIn)
    /\ IdleLnprob

SpecG20 ==
    InitG20 /\ [][G20_call]_vars

\* a plotting script from its file list to its curves
InitFileList ==
    /\ plot_script \in PlotScripts
    /\ file_lines \in FileLists
    /\ line_no = 1
    /\ extnames = <<>>
    /\ extdatas = <<>>
    /\ avs = <<>>
    /\ normvals = <<>>
    /\ plot_pc = "lines"
    /\ plot_exc = "none"
    /\ drawn = <<>>
    /\ IdleShapes
    /\ script = "calc_ext_wG20"
    /\ data = FitData
    /\ model_copy = None
    /\ lncall = NoCall
    /\ args = [emcee |-> FALSE]
    /\ pc = "done"
    /\ exc = "none"
    /\ p92_init = None
    /\ p92_fit = None
    /\ em = NoEm
    /\ sampler = EmptySampler
    /\ pos = None
    /\ prob = None
    /\ best_params = None
    /\ per_params = NoMap
    /\ p92_fit_emcee = None
    /\ saved = None
    /\ hist = <<>>
    /\ files = <<>>
    /\ shown = FALSE
    /\ curves = <<>>

NextFileList ==
    \/ ReadLine
    \/ Reorder
    \/ plot_all_ext

SpecFileList ==
    InitFileList /\ [][NextFileList]_vars

(***************************************************************************)
(* Properties of lnprob.                                                   *)
(***************************************************************************)
OutOfBounds(params, pnames, bounds) ==
    \E k \in 1..Len(pnames) : ~InBound(params[k], bounds[pnames[k]])

\* the model with exactly the values params for the names pnames
ModelWith(model, before, params, pnames) ==
    [model EXCEPT !.value =
        [n \in PNameSet |->
           IF \E k \in 1..Len(pnames) : pnames[k] = n
           THEN params[CHOOSE k \in 1..Len(pnames) : pnames[k] = n]
           ELSE before[n]]]

\* C1: a vector with a component below the min or above the max of its
\* parameter gets the result -inf, in every version of lnprob
C1_OutOfBoundsIsNegInf ==
    (lncall.done /\ OutOfBounds(lncall.params, lncall.pnames, model_copy.bounds))
        => lncall.ret = NegInf

\* C2: a vector within all bounds is written to the model and gets
\* -0.5 * sum(((model(x) - y) / unc)^2) for exactly those values, which is
\* never -inf and always <= 0
C2_InBoundsIsLogLike ==
    (lncall.done /\ ~OutOfBounds(lncall.params, lncall.pnames, model_copy.bounds))
        => /\ \A k \in 1..Len(lncall.pnames) :
                 model_copy.value[lncall.pnames[k]] = lncall.params[k]
           /\ lncall.ret = LogLike(ModelWith(model_copy, lncall.before,
                                             lncall.params, lncall.pnames),
                                   data.x, data.y, data.uncs)
           /\ lncall.ret # NegInf
           /\ RLe(lncall.ret, Zero)

\* a model object as the first call of a run finds it: within its bounds,
\* and equal to the model of the last call in everything but the values of
\* the names that call was given
AsFirstCall(m) ==
    /\ WithinBounds(m)
    /\ m.bounds = model_copy.bounds
    /\ \A n \in PNameSet :
          (\A k \in 1..Len(lncall.pnames) : lncall.pnames[k] # n)
              => m.value[n] = lncall.before[n]

\* C17: the value of a call is the value the same vector gets when it is
\* evaluated first: it depends on the vector, the data and the bounds, not on
\* the values earlier calls left in the shared model
C17_ResultIndependentOfEarlierCalls ==
    lncall.done
        => \A m \in Models(script) :
              AsFirstCall(m)
                  => lnprob(script, lncall.params, data.x, data.y, data.uncs,
                            m, lncall.pnames).ret = lncall.ret

\* some component of the vector is exactly the min or the max of its name
AtBound(params, pnames, bounds) ==
    \E k \in 1..Len(pnames) :
        \/ bounds[pnames[k]][1] # None /\ params[k] = bounds[pnames[k]][1]
        \/ bounds[pnames[k]][2] # None /\ params[k] = bounds[pnames[k]][2]

\* C24: lnprob rejects only components strictly below a min or strictly
\* above a max: a vector within its bounds with a component exactly at a
\* bound, as the clamp of p92_emcee produces, is not given -inf
C24_ComponentAtBoundAccepted ==
    (/\ lncall.done
     /\ ~OutOfBounds(lncall.params, lncall.pnames, model_copy.bounds)
     /\ AtBound(lncall.params, lncall.pnames, model_copy.bounds))
        => lncall.ret # NegInf

(***************************************************************************)
(* Properties of the curve shapes.                                         *)
(***************************************************************************)
AtCentre ==
    /\ shape_in.waves = shape_in.cen_wave
    /\ shape_in.cen_wave # Zero
    /\ shape_in.width # Zero

Drude1DAtCentre ==
    /\ shape_in.waves = drude.x_0
    /\ drude.x_0 # Zero
    /\ drude.fwhm # Zero

\* C3 as stated: at its central wavelength every curve shape (Drude term,
\* background term, Drude1D) returns its amplitude
C3_AllShapesPeakAtAmplitude ==
    /\ (shape_out.op \in {"_g20_drude_term", "_g20_bkg_term"} /\ AtCentre)
          => shape_out.res = shape_in.amplitude
    /\ (shape_out.op = "Drude1D" /\ Drude1DAtCentre)
          => shape_out.res = drude.amplitude

\* C3 amended: at the central wavelength the Drude shapes return the
\* amplitude and the background term returns amplitude / (2 + b)
C3_PeakValues ==
    /\ (shape_out.op = "_g20_drude_term" /\ AtCentre)
          => shape_out.res = shape_in.amplitude
    /\ (shape_out.op = "Drude1D" /\ Drude1DAtCentre)
          => shape_out.res = drude.amplitude
    /\ (shape_out.op = "_g20_bkg_term" /\ AtCentre)
          => shape_out.res = RDiv(shape_in.amplitude,
                                  RAdd(Int2R(2), shape_in.b))

C3_Witness ==
    /\ shape_out.op = "_g20_bkg_term"
    /\ AtCentre
    /\ shape_in.b = Int2R(90)
    /\ shape_out.res = RDiv(shape_in.amplitude, Int2R(92))

Outside(xi) ==
    RLt(xi, Rat(1, 1000)) \/ RGt(xi, Int2R(1000))

\* C9: G20.evaluate raises the validation error, and returns nothing, exactly
\* when some input wavenumber is outside [1/1000, 1/0.001]
C9_RaisesIffOutOfRange ==
    shape_out.op = "G20" =>
        IF \E i \in 1..Len(shape_in.xs) : Outside(shape_in.xs[i])
        THEN shape_out.exc = "ValueError" /\ shape_out.res = None
        ELSE shape_out.exc = "none" /\ Len(shape_out.res) = Len(shape_in.xs)

C9_Witness ==
    /\ shape_out.op = "G20"
    /\ shape_out.exc = "ValueError"
    /\ Len(shape_in.xs) = 2
    /\ ~Outside(shape_in.xs[1])
    /\ Outside(shape_in.xs[2])

\* C10: setting x_0 to 0 is rejected with InputParameterError, and no Drude1D
\* is evaluated with a zero centre
C10_ZeroCentreIsInputParameterError ==
    /\ (shape_out.op = "set_x_0" /\ shape_out.res = Zero)
          => shape_out.exc = "InputParameterError"
    /\ drude.x_0 # Zero

\* the term t of the G20 call at hand, at the wavelength 1/x, with the
\* amplitude a
TermOf(t, x, a) ==
    IF t = "BKG"
    THEN _g20_bkg_term(RDiv(One, x), a, shape_in.cen_wave, shape_in.b,
                       shape_in.n)
    ELSE _g20_drude_term(RDiv(One, x), a, shape_in.cen_wave, shape_in.width)

AmpOf(t) ==
    IF t \in shape_in.on THEN shape_in.amplitude ELSE Zero

SumOfTerms(x) ==
    RAdd(RAdd(RAdd(RAdd(RAdd(TermOf("BKG", x, AmpOf("BKG")),
                             TermOf("FUV", x, AmpOf("FUV"))),
                        TermOf("NUV", x, AmpOf("NUV"))),
                   TermOf("SIL1", x, AmpOf("SIL1"))),
              TermOf("SIL2", x, AmpOf("SIL2"))),
         TermOf("FIR", x, AmpOf("FIR")))

G20Returned ==
    shape_out.op = "G20" /\ shape_out.exc = "none"

\* C27 as stated: for in-range x G20.evaluate returns the sum of the
\* background term and the five Drude terms at the wavelength 1/x; with all
\* six amplitudes zero the result is zero at every x, with exactly one
\* amplitude nonzero it is that single term
C27_SumOfSixTerms ==
    G20Returned =>
        \A i \in 1..Len(shape_in.xs) :
            LET x == shape_in.xs[i]
            IN  /\ shape_out.res[i] = SumOfTerms(x)
                /\ shape_in.on = {} => shape_out.res[i] = Zero
                /\ \A t \in G20Terms :
                       shape_in.on = {t}
                           => shape_out.res[i] = TermOf(t, x, shape_in.amplitude)

\* every term of the call has a finite shape at the wavelength 1/x
TermsFinite(x) ==
    \A t \in G20Terms : IsFinite(TermOf(t, x, One))

\* C27 amended: the result is the sum of the six terms; with all six
\* amplitudes zero it is zero, and with exactly one amplitude nonzero it is
\* that single term, at every x where the shape of every term is finite
C27_SumOfSixFiniteTerms ==
    G20Returned =>
        \A i \in 1..Len(shape_in.xs) :
            LET x == shape_in.xs[i]
            IN  /\ shape_out.res[i] = SumOfTerms(x)
                /\ TermsFinite(x) =>
                       /\ shape_in.on = {} => shape_out.res[i] = Zero
                       /\ \A t \in G20Terms :
                              shape_in.on = {t}
                                  => shape_out.res[i]
                                         = TermOf(t, x, shape_in.amplitude)

C27_Witness ==
    /\ G20Returned
    /\ shape_in.on = {"FIR"}
    /\ Len(shape_in.xs) = 2
    /\ TermsFinite(shape_in.xs[1]) /\ TermsFinite(shape_in.xs[2])
    /\ shape_out.res[1] = TermOf("FIR", shape_in.xs[1], shape_in.amplitude)
    /\ shape_out.res[1] # Zero
    /\ shape_out.res[2] = shape_in.amplitude

(***************************************************************************)
(* Properties of p92_emcee and of the main scripts.                        *)
(***************************************************************************)
Has(ev) ==
    \E i \in 1..Len(hist) : hist[i] = ev

WalkersSet ==
    em.ndim > 0

\* C4: once the walkers are initialised and clamped, every component is
\* >= min where a min is set and <= max where a max is set, a component that
\* was outside is at the edge it violated (and one that was inside is kept)
C4_WalkersStartWithinBounds ==
    WalkersSet =>
        \A w \in 1..Len(em.p) : \A k \in 1..em.ndim :
            LET b == p92_fit.bounds[em.fit_param_names[k]]
                raw == em.p_raw[w][k]
                v == em.p[w][k]
            IN  /\ b[1] # None => RLe(b[1], v)
                /\ b[2] # None => RLe(v, b[2])
                /\ (b[1] # None /\ RLt(raw, b[1])) => v = b[1]
                /\ (b[2] # None /\ RGt(raw, b[2])) => v = b[2]
                /\ InBound(raw, b) => v = raw

C4_Witness ==
    /\ WalkersSet
    /\ \E w \in 1..Len(em.p) : \E k \in 1..em.ndim :
           LET b == p92_fit.bounds[em.fit_param_names[k]]
           IN  b[1] # None /\ RLt(em.p_raw[w][k], b[1]) /\ em.p[w][k] = b[1]
    /\ \E w \in 1..Len(em.p) : \E k \in 1..em.ndim :
           LET b == p92_fit.bounds[em.fit_param_names[k]]
           IN  b[2] # None /\ RGt(em.p_raw[w][k], b[2]) /\ em.p[w][k] = b[2]

CountOf(ev) ==
    Cardinality({i \in 1..Len(hist) : hist[i] = ev})

\* C5: the burn-in steps all come before the reset and the sampling steps
\* after it, sampling starts from the positions the burn-in ended with, and
\* the chain holds one sample per sampling step: nsteps per walker when the
\* best fit and the percentiles are derived, none of them from the burn-in
C5_BurnThenResetThenSample ==
    /\ \A i, j \in 1..Len(hist) :
           /\ (hist[i] \in {"burn_start", "burn_step"} /\ hist[j] = "reset")
                 => i < j
           /\ (hist[i] = "reset"
                 /\ hist[j] \in {"sample_start", "sample_step", "derive"})
                 => i < j
    /\ Has("sample_start") =>
           /\ Has("reset")
           /\ CountOf("burn_step") = em.burn
           /\ em.start = em.burn_pos
    /\ Has("reset") =>
           \A w \in 1..Len(Tracked) :
               /\ Len(sampler.chain[w]) = CountOf("sample_step")
               /\ Len(sampler.lnprobability[w]) = CountOf("sample_step")
    /\ Has("derive") =>
           \A w \in 1..Len(Tracked) : Len(sampler.chain[w]) = em.nsteps

C5_Witness ==
    /\ Has("derive")
    /\ em.burn_pos # em.p
    /\ em.start = em.burn_pos
    /\ \A w \in 1..Len(Tracked) : Len(sampler.chain[w]) = em.nsteps

\* the largest log-probability of the whole chain
ChainMax ==
    MaxOf(Flatten(sampler.lnprobability))

\* C6: for any chain, get_best_fit_params returns the chain entry at some
\* (walker, step) whose log-probability is the maximum over all walkers and
\* steps
C6_BestIsMaxSample ==
    Has("derive") =>
        \E w \in 1..Len(Tracked) : \E i \in 1..Len(sampler.chain[w]) :
            /\ best_params = sampler.chain[w][i]
            /\ sampler.lnprobability[w][i] = ChainMax

Column(k) ==
    LET samples == Flatten(sampler.chain)
    IN  [i \in 1..Len(samples) |-> samples[i][k]]

\* C7: one triple per fitted parameter, in fit_param_names order, equal to
\* (p50, p84 - p50, p50 - p16) of that parameter's samples of all walkers,
\* with both uncertainties >= 0
C7_PercentileTriples ==
    Has("derive") =>
        /\ Len(per_params.items) = Len(em.fit_param_names)
        /\ \A k \in 1..Len(em.fit_param_names) :
               LET t == per_params.items[k]
               IN  /\ t[1] = Percentile(Column(k), 50)
                   /\ RAdd(t[1], t[2]) = Percentile(Column(k), 84)
                   /\ RSub(t[1], t[3]) = Percentile(Column(k), 16)
                   /\ RLe(Zero, t[2])
                   /\ RLe(Zero, t[3])

C7_Witness ==
    /\ Has("derive")
    /\ exc = "none"
    /\ \E k \in 1..Len(em.fit_param_names) :
           LET t == per_params.items[k]
           IN  t[2] # Zero /\ t[3] # Zero /\ t[2] # t[3]
    /\ Column(1) # Column(2)

EmceeEvents ==
    {"p92_emcee", "burn_start", "burn_step", "reset", "sample_start",
     "sample_step", "derive"}

FittedValues ==
    [k \in 1..em.ndim |-> p92_fit.value[em.fit_param_names[k]]]

AroundCentre(centre) ==
    \A w \in 1..Len(em.p_raw) : \A k \in 1..em.ndim :
        \E n \in NormalDraws :
            em.p_raw[w][k] =
                RMul(centre[k], RAdd(One, RMul(Rat(1, 10000), Int2R(n))))

FitBeforeEmcee ==
    \A i \in 1..Len(hist) :
        hist[i] \in EmceeEvents
            => /\ \E j \in 1..(i - 1) : hist[j] = "fit"
               /\ args.emcee

\* C8 as stated: the least-squares fit runs before any MCMC step, p92_emcee
\* runs only with --emcee, and the walkers are drawn around the values of
\* the fitted model
C8_WalkersAroundFittedValues ==
    /\ FitBeforeEmcee
    /\ WalkersSet => AroundCentre(FittedValues)

\* C8 amended: as above, but a fitted value of exactly 0 is first replaced
\* by the small positive value of the script
C8_WalkersAroundFittedValuesZeroReplaced ==
    /\ FitBeforeEmcee
    /\ WalkersSet =>
           /\ em.p0 = ZeroReplaced(FittedValues)
           /\ AroundCentre(ZeroReplaced(FittedValues))

C8_Witness ==
    /\ WalkersSet
    /\ hist = <<"read", "calc", "fit", "p92_emcee">>
    /\ \E k \in 1..em.ndim :
           /\ FittedValues[k] = Zero
           /\ em.p0[k] = One
    /\ \E k \in 1..em.ndim :
           FittedValues[k] # p92_init.value[em.fit_param_names[k]]

(***************************************************************************)
(* Properties of the fitted parameter list and of the returned model.      *)
(***************************************************************************)
\* main of calc_ext.py calls p92_emcee without fit_param_names
NamesNotGiven ==
    script = "calc_ext" /\ WalkersSet

\* C11: without fit_param_names the list is exactly the parameters whose
\* fixed flag is false, in the order of model.param_names; ndim is their
\* count and nwalkers is 10 * ndim
C11_DefaultNamesAreNonFixed ==
    NamesNotGiven =>
        /\ \A n \in PNameSet :
               (\E k \in 1..Len(em.fit_param_names) : em.fit_param_names[k] = n)
                   <=> ~p92_fit.fixed[n]
        /\ \A i, j \in 1..Len(em.fit_param_names) :
               i < j =>
                   \E a, b \in 1..Len(param_names) :
                       /\ a < b
                       /\ param_names[a] = em.fit_param_names[i]
                       /\ param_names[b] = em.fit_param_names[j]
        /\ em.ndim = Len(em.fit_param_names)
        /\ em.nwalkers = 10 * em.ndim

C11_Witness ==
    /\ NamesNotGiven
    /\ em.fit_param_names = <<"SIL1_amp_0", "FIR_amp_0">>
    /\ p92_fit.tied["FIR_amp_0"] # "False"
    /\ p92_fit.fixed["FIR_lambda_0"]
    /\ em.nwalkers = 20

\* p92_emcee has just returned to the main script
Returned ==
    Len(hist) > 0 /\ hist[Len(hist)] = "derive" /\ pc = "save"

IsFitted(n) ==
    \E k \in 1..Len(em.fit_param_names) : em.fit_param_names[k] = n

\* C12: the model returned by p92_emcee of calc_ext_wG20.py holds the p50
\* of its samples for every fitted parameter and the value of the input
\* model for every other parameter
C12_ReturnedModelHoldsP50 ==
    (script = "calc_ext_wG20" /\ Returned) =>
        /\ \A k \in 1..Len(em.fit_param_names) :
               p92_fit_emcee.model.value[em.fit_param_names[k]]
                   = Percentile(Column(k), 50)
        /\ \A n \in PNameSet :
               ~IsFitted(n) => p92_fit_emcee.model.value[n] = p92_fit.value[n]

C12_Witness ==
    /\ script = "calc_ext_wG20"
    /\ Returned
    /\ \E k \in 1..Len(em.fit_param_names) :
           /\ p92_fit_emcee.model.value[em.fit_param_names[k]] # best_params[k]
           /\ p92_fit_emcee.model.value[em.fit_param_names[k]]
                  # p92_fit.value[em.fit_param_names[k]]
    /\ \E n \in PNameSet : ~IsFitted(n)

(***************************************************************************)
(* Properties of the steps of the main scripts.                            *)
(***************************************************************************)
\* the files written for the final figure
FigureFiles ==
    SelectSeq(files, LAMBDA f : f \in {"ext.png", "ext.eps", "ext.pdf"})

EpsGiven ==
    script = "calc_ext" /\ args.eps

\* C13: the final figure gets exactly one output action: --png saves only a
\* PNG, else --eps (calc_ext.py) only an EPS, else --pdf only a PDF, else the
\* figure is shown and not saved; several flags never save more than one
\* file
C13_OneOutputAction ==
    /\ ~Has("output") => (FigureFiles = <<>> /\ ~shown)
    /\ Has("output") =>
           /\ Len(FigureFiles) <= 1
           /\ shown <=> FigureFiles = <<>>
           /\ args.png => FigureFiles = <<"ext.png">>
           /\ (~args.png /\ EpsGiven) => FigureFiles = <<"ext.eps">>
           /\ (~args.png /\ ~EpsGiven /\ args.pdf)
                 => FigureFiles = <<"ext.pdf">>
           /\ (~args.png /\ ~EpsGiven /\ ~args.pdf) => shown

C13_Witness ==
    /\ Has("output")
    /\ args.png /\ args.pdf /\ EpsGiven
    /\ FigureFiles = <<"ext.png">>
    /\ ~shown

\* the events of the steps that run once
StepEvents ==
    {"read", "calc", "fit", "p92_emcee", "reset", "derive", "save", "plot",
     "output"}

\* the place of an event in the script
Rank(ev) ==
    CASE ev = "read" -> 1
      [] ev = "calc" -> 2
      [] ev = "fit" -> 3
      [] ev \in EmceeEvents -> 4
      [] ev = "save" -> 5
      [] ev = "plot" -> 6
      [] ev = "output" -> 7
      [] OTHER -> 8

FitFailed ==
    hist = <<"read", "calc", "raise">>

\* C14: a failure ends the script where it happens: the raising step is the
\* last thing that ran, no step runs twice or out of order, the effects of
\* the steps that did not run are absent, and a failed least-squares fit
\* leaves neither the FITS file nor a figure
C14_FailureAbortsScript ==
    /\ exc # "none" => pc = "aborted"
    /\ \A i \in 1..Len(hist) : hist[i] = "raise" => i = Len(hist)
    /\ \A ev \in StepEvents : CountOf(ev) <= 1
    /\ \A i, j \in 1..Len(hist) : i < j => Rank(hist[i]) <= Rank(hist[j])
    /\ ~Has("save") => (saved = None /\ \A i \in 1..Len(files) :
                                            files[i] # "ext.fits")
    /\ ~Has("plot") => curves = <<>>
    /\ ~Has("output") => (FigureFiles = <<>> /\ ~shown)
    /\ FitFailed => (pc = "aborted" /\ files = <<>> /\ saved = None
                     /\ curves = <<>> /\ ~shown)

C14_Witness ==
    /\ FitFailed
    /\ pc = "aborted"
    /\ exc = "Exception"
    /\ files = <<>>

(***************************************************************************)
(* Properties of the final figure.                                         *)
(***************************************************************************)
\* the input model with the p50 of the samples for the fitted parameters
P50Model ==
    SetValues(p92_fit, em.fit_param_names,
              [k \in 1..Len(em.fit_param_names) |-> Percentile(Column(k), 50)])

\* C18: with --emcee, the curve calc_ext_wG20.py draws with the label
\* "EMCEE Fits" is the model evaluated with the p50 values p92_emcee
\* returned, whatever per-sample curves were drawn before it
C18_EmceeFitsCurveIsP50 ==
    (script = "calc_ext_wG20" /\ args.emcee /\ Has("plot")) =>
        \A i \in 1..Len(curves) :
            curves[i].label = "EMCEE Fits"
                => curves[i].y = Curve("EMCEE Fits", P50Model).y

(***************************************************************************)
(* Properties of the tie of calc_ext.py.                                   *)
(***************************************************************************)
TieHolds(model) ==
    model.value["FIR_amp_0"] = tie_amps_FIR_to_SIL1(model)

\* C19: in calc_ext.py FIR_amp_0 = (0.012/0.002) * SIL1_amp_0 in the
\* least-squares fitted model, in the model as lnprob leaves it at every
\* step of the sampling, and in the model p92_emcee returns
C19_FIRTiedToSIL1 ==
    script = "calc_ext" =>
        /\ Has("fit") => TieHolds(p92_fit)
        /\ (Has("p92_emcee") /\ ~Has("plot")) => TieHolds(model_copy)
        /\ (Has("derive") /\ exc = "none") => TieHolds(p92_fit_emcee.model)

(***************************************************************************)
(* Properties of the saved parameters.                                     *)
(***************************************************************************)
\* C20: the parameters in the FITS file are the values of the least-squares
\* fit, in the order of the model's parameter names and next to those names
\* without their two-character suffix, whether or not the MCMC ran
C20_SavedParametersAreLSQFit ==
    Has("save") =>
        /\ saved[1] = <<"SIL1_amp", "FIR_amp", "FIR_lambda", "FIR_b">>
        /\ Len(saved[2]) = Len(param_names)
        /\ \A k \in 1..Len(param_names) :
               saved[2][k] = p92_fit.value[param_names[k]]

C20_Witness ==
    /\ Has("save")
    /\ args.emcee
    /\ Has("derive")
    /\ \E k \in 1..Len(param_names) :
           /\ p92_fit_emcee.model.value[param_names[k]] # saved[2][k]
           /\ saved[2][k] # p92_init.value[param_names[k]]

(***************************************************************************)
(* Properties of p92_emcee as a whole.                                     *)
(***************************************************************************)
InEmcee ==
    pc \in {"p92_emcee", "burn_start", "burn", "sample_start", "sample"}

\* C21: no step of p92_emcee changes the values, fixed flags or bounds of
\* the model it was given, and the model it returns is the internal copy
\* that every update went to
C21_EmceeLeavesInputModel ==
    [][InEmcee => /\ p92_fit' = p92_fit
                  /\ pc' = "save" => p92_fit_emcee'.model = model_copy']_vars

C21_Witness ==
    /\ Returned
    /\ p92_fit_emcee.model = model_copy
    /\ p92_fit_emcee.model.value # p92_fit.value
    /\ p92_fit_emcee.model.bounds = p92_fit.bounds

\* the items a map object still yields to a reader
Readable(mapobj) ==
    SubSeq(mapobj.items, mapobj.next, Len(mapobj.items))

\* C22: the model calc_ext_wG20.py's p92_emcee returns carries as many
\* readable triples in p92_emcee_per_params as names in
\* p92_emcee_param_names, one (p50, upper, lower) triple per fitted parameter
C22_ReturnedModelCarriesTriples ==
    (script = "calc_ext_wG20" /\ Returned) =>
        LET names == p92_fit_emcee.attrs.p92_emcee_param_names
            triples == Readable(p92_fit_emcee.attrs.p92_emcee_per_params)
        IN  /\ Len(names) = em.ndim
            /\ Len(triples) = Len(names)
            /\ \A k \in 1..Len(triples) :
                   /\ Len(triples[k]) = 3
                   /\ triples[k][1] = Percentile(Column(k), 50)

(***************************************************************************)
(* Properties of the file list of the plotting scripts.                    *)
(***************************************************************************)
\* the lines that name a curve: not a comment and not empty
IsCurveLine(line) ==
    /\ ~(Len(line) > 0 /\ line[1] = "#")
    /\ \E i \in 1..Len(line) : line[i] \notin {" ", "\n", "\t"}

CurveLines ==
    SelectSeq(file_lines, IsCurveLine)

ListRead ==
    /\ plot_exc = "none"
    /\ \/ plot_pc = "lines" /\ line_no > Len(file_lines)
       \/ plot_pc \in {"plot", "done"}

Reordered ==
    plot_script = "plot_uv_mir_mext" /\ plot_pc \in {"plot", "done"}

\* C23: once the file list is read, comment lines and empty lines have added
\* no curve, normvals, extnames and extdatas have one entry per curve and
\* entry i of each belongs to the same curve, also after plot_uv_mir_mext.py
\* has put them in descending order of normvals
C23_ListsDescribeSameCurves ==
    ListRead =>
        /\ Len(extnames) = Len(CurveLines)
        /\ Len(normvals) = Len(extnames)
        /\ Len(extdatas) = Len(extnames)
        /\ \A i \in 1..Len(extnames) :
               /\ extdatas[i].name = extnames[i]
               /\ normvals[i] = NormVal(FitsDir[extnames[i]])
        /\ Reordered =>
               \A i, j \in 1..Len(normvals) :
                   i < j => ~RLt(normvals[i], normvals[j])

(***************************************************************************)
(* Properties of the declared bounds of G20.                               *)
(***************************************************************************)
RespectsBounds(P) ==
    \A t \in G20Terms : InBound(P[G20_lambda[t]], G20_bounds[t])

\* C25: a G20 parameter set that respects the declared bounds has no zero
\* centre wavelength, so no term of a call divides the wavelength by zero
C25_NoZeroCentreWithinBounds ==
    (g20.called /\ RespectsBounds(g20.P)) =>
        \A t \in G20Terms : \A i \in 1..Len(g20.x) :
            /\ g20.P[G20_lambda[t]] # Zero
            /\ IsFinite(RDiv(RDiv(One, g20.x[i]), g20.P[G20_lambda[t]]))
====
